---- MODULE Spec2Model ----
(***************************************************************************)
(* Water-Potability: app.py, a Streamlit script.  Streamlit executes the   *)
(* script from its first line to its last once when a session opens and    *)
(* again on every widget interaction (an input edited, the button pressed, *)
(* a manual rerun).  Every run starts with a fresh namespace: the only     *)
(* state carried from one run to the next is the widgets' values, the page *)
(* the browser shows, and the file rf_model.pkl on disk.                   *)
(*                                                                         *)
(* Numbers: field values are in tenths (pH 7.0 is 70); probabilities are   *)
(* in units of 1/10000 (0.5 is 5000, 1.0 is 10000); a displayed percentage *)
(* "12.3%" is the number of tenths of a percent (123).                     *)
(***************************************************************************)
EXTENDS Integers, Sequences, FiniteSets, TLC

\* ------------------------------------------------------------------ bounds
\* Script runs of the session (the first one included).
MaxRuns == 4
\* Edits of input fields in the session.
MaxEdits == 2

\* ------------------------------------------------------- program constants
\* range(100): the iterations of the progress-bar loop.
ProgressSteps == 100
\* The 0.5 the confidence deltas are taken from.
Half == 5000
\* --------------------------------------------------------------- the fields
\* The nine fields in the order the script renders them.
FieldNames ==
  << "pH", "Hardness", "Solids", "Chloramines", "Sulfate", "Conductivity",
     "OrganicCarbon", "Trihalomethanes", "Turbidity" >>

FieldSet == { FieldNames[k] : k \in 1..Len(FieldNames) }

\* min_value, max_value, value and step of each st.sidebar.number_input.
Widget ==
  [ pH              |-> [min |-> 0, max |-> 140,    value |-> 70,     step |-> 1],
    Hardness        |-> [min |-> 0, max |-> 5000,   value |-> 1500,   step |-> 10],
    Solids          |-> [min |-> 0, max |-> 600000, value |-> 200000, step |-> 1000],
    Chloramines     |-> [min |-> 0, max |-> 100,    value |-> 70,     step |-> 1],
    Sulfate         |-> [min |-> 0, max |-> 6000,   value |-> 3300,   step |-> 10],
    Conductivity    |-> [min |-> 0, max |-> 8000,   value |-> 4000,   step |-> 10],
    OrganicCarbon   |-> [min |-> 0, max |-> 300,    value |-> 100,    step |-> 1],
    Trihalomethanes |-> [min |-> 0, max |-> 1200,   value |-> 600,    step |-> 10],
    Turbidity       |-> [min |-> 0, max |-> 100,    value |-> 30,     step |-> 1] ]

\* The widgets' values when no widget state exists: each one's value=.
Defaults == [ f \in FieldSet |-> Widget[f].value ]

\* What the user types into field f: either bound, or one step beyond it.
Typed(f) ==
  { Widget[f].min - Widget[f].step, Widget[f].min,
    Widget[f].max, Widget[f].max + Widget[f].step }

\* number_input without its bounds: whatever is typed is taken.
NumberInputUnbounded(f, cur, raw, clamp) == raw

\* number_input with min_value and max_value: a typed value inside the bounds
\* is taken as it is; one outside them is clamped to the nearer bound or
\* refused (the field keeps its value), depending on the Streamlit version.
NumberInput(f, cur, raw, clamp) ==
  IF raw < Widget[f].min
    THEN (IF clamp THEN Widget[f].min ELSE cur)
    ELSE IF raw > Widget[f].max
           THEN (IF clamp THEN Widget[f].max ELSE cur)
           ELSE raw

\* ------------------------------------------------------------ the artifact
\* rf_model.pkl holds a pickled pair (model, scaler).  Two artifacts stand for
\* the files that can be deployed: A decides by argmax (label 1 iff
\* p_potable > 0.5), B carries a custom decision threshold, so that its label
\* can disagree with the argmax of its probabilities.
ArtifactA ==
  [ id     |-> "A",
    model  |-> [ id |-> "A", bias |-> 5004, thr |-> 5000,
                 w |-> << 7, 3, 1, 5, 2, 9, 4, 6, 8 >> ],
    scaler |-> [ id |-> "A",
                 mean  |-> << 71, 1964, 220140, 71, 3338, 4262, 143, 664, 40 >>,
                 scale |-> << 15, 329, 87680, 16, 362, 808, 33, 158, 8 >> ] ]

ArtifactB ==
  [ id     |-> "B",
    model  |-> [ id |-> "B", bias |-> 4215, thr |-> 3000,
                 w |-> << 2, 8, 3, 1, 7, 4, 9, 5, 6 >> ],
    scaler |-> [ id |-> "B",
                 mean  |-> << 70, 1500, 200000, 70, 3300, 4000, 100, 600, 30 >>,
                 scale |-> << 20, 300, 90000, 15, 400, 800, 30, 160, 10 >> ] ]

Artifacts == { ArtifactA, ArtifactB }

\* The names model and scaler before the load has bound them.
NoModel == [ id |-> "none", bias |-> 0, thr |-> 0, w |-> << >> ]
NoScaler == [ id |-> "none", mean |-> << >>, scale |-> << >> ]

\* What can be at the path rf_model.pkl: nothing, a file the process may not
\* read, a file that is no pickle, a pickle that is not a pair, an artifact.
FileStates == { "absent", "denied", "corrupt", "notpair", "A", "B" }

ArtifactOf(f) == IF f = "A" THEN ArtifactA ELSE ArtifactB

\* open("rf_model.pkl", "rb"), pickle.load(file) and the unpacking into
\* model, scaler: the exception raised, or "ok".
LoadOutcome(f) ==
  CASE f = "absent"  -> "FileNotFoundError"
    [] f = "denied"  -> "PermissionError"
    [] f = "corrupt" -> "UnpicklingError"
    [] f = "notpair" -> "ValueError"
    [] OTHER         -> "ok"

\* except FileNotFoundError: the one exception the script handles.
Handled(e) == e = "FileNotFoundError"

\* ------------------------------------------------- scaler and classifier
\* scaler.transform: (x - mean) / scale per feature, in hundredths.
Transform(s, x) ==
  [ k \in 1..Len(x) |-> ((x[k] - s.mean[k]) * 100) \div s.scale[k] ]

RECURSIVE Dot(_, _, _)
Dot(w, z, n) == IF n = 0 THEN 0 ELSE w[n] * z[n] + Dot(w, z, n - 1)

\* The classifier's probability of class 1 for a scaled vector: a
\* deterministic function of the fitted model and the vector, in 0..10000.
ProbaOne(m, z) == (m.bias + Dot(m.w, z, Len(z))) % 10001

\* model.predict(X): one label per row of X.
Predict(m, z) == << IF ProbaOne(m, z) > m.thr THEN 1 ELSE 0 >>

\* model.predict_proba(X): one row (p_not_potable, p_potable) per row of X.
PredictProba(m, z) == << << 10000 - ProbaOne(m, z), ProbaOne(m, z) >> >>

\* ----------------------------------------------------------- the presenter
\* f"{p:.1%}": p as a percentage with one decimal, rounded half to even;
\* the result is the number of tenths of a percent, with p's sign.
FormatPct(p) ==
  LET a == IF p < 0 THEN 0 - p ELSE p
      q == a \div 10
      r == a % 10
      n == IF r < 5 THEN q
           ELSE IF r > 5 THEN q + 1
           ELSE IF q % 2 = 0 THEN q ELSE q + 1
  IN  IF p < 0 THEN 0 - n ELSE n

\* The result card and the confidence line.
Verdict(pr, prob_potable, prob_not_potable) ==
  IF pr[1] = 1
    THEN [ verdict |-> "POTABLE", confidence |-> FormatPct(prob_potable) ]
    ELSE [ verdict |-> "NOT POTABLE", confidence |-> FormatPct(prob_not_potable) ]

\* st.metric: the value and the delta from 0.5 (both arms of the conditional
\* compute the same expression).
Metric(p) ==
  [ value |-> FormatPct(p),
    delta |-> IF p > Half THEN FormatPct(p - Half) ELSE FormatPct(p - Half) ]

\* Everything the result section shows.
Presenter(pr, prob_potable, prob_not_potable) ==
  [ verdict    |-> Verdict(pr, prob_potable, prob_not_potable).verdict,
    confidence |-> Verdict(pr, prob_potable, prob_not_potable).confidence,
    safe       |-> Metric(prob_potable),
    unsafe     |-> Metric(prob_not_potable),
    bars       |-> << prob_potable, prob_not_potable >> ]

\* The page before any result section is rendered.
NoDisplay ==
  [ verdict |-> "none", confidence |-> 0,
    safe |-> [ value |-> 0, delta |-> 0 ], unsafe |-> [ value |-> 0, delta |-> 0 ],
    bars |-> << >> ]

\* ------------------------------------------------------------------ state
VARIABLES
  file,            \* what is at rf_model.pkl
  fields,          \* the widgets' values, kept by Streamlit between runs
  event,           \* the field edit the browser sent to start this run
  edits,           \* edits of fields made in the session
  runs,            \* script runs started in the session
  loads,           \* successful deserializations in the process
  firstArt,        \* id of the artifact the first load returned
  results,         \* the inference requests shown so far, oldest first
  pc,              \* position in the script, or "idle" between runs
  pressed,         \* whether a press of the analyze button started this run
  exc,             \* the exception the load raised in this run, or "none"
  model, scaler,   \* the script's names model and scaler
  local,           \* the nine names ph .. turbidity
  input_data, input_scaled, predict_button,
  i,               \* the progress loop's counter (the bar shows i)
  pred, prob, prob_potable, prob_not_potable,
  display,         \* the result section
  rendered,        \* the parts of the page rendered in this run
  trace            \* the pipeline steps this run has executed

vars ==
  << file, fields, event, edits, runs, loads, firstArt, results, pc, pressed,
     exc, model, scaler, local, input_data, input_scaled, predict_button, i,
     pred, prob, prob_potable, prob_not_potable, display, rendered, trace >>

\* carried from one run to the next
session == << file, fields, event, edits, runs, loads, firstArt, results >>

\* the script's own names
names ==
  << model, scaler, local, input_data, input_scaled, predict_button, i,
     pred, prob, prob_potable, prob_not_potable >>

NoEvent == [ field |-> "none", raw |-> 0 ]

\* A run that begins with the last result still held and shown.
FreshRunKeepsResult ==
  /\ pc' = "setup"
  /\ exc' = "none"
  /\ model' = NoModel
  /\ scaler' = NoScaler
  /\ local' = << >>
  /\ input_data' = << >>
  /\ input_scaled' = << >>
  /\ predict_button' = FALSE
  /\ i' = 0
  /\ pred' = pred
  /\ prob' = prob
  /\ prob_potable' = prob_potable
  /\ prob_not_potable' = prob_not_potable
  /\ display' = display
  /\ rendered' = rendered \cap { "result" }
  /\ trace' = << >>

\* A run begins: a fresh namespace and an empty page.
FreshRun ==
  /\ pc' = "setup"
  /\ exc' = "none"
  /\ model' = NoModel
  /\ scaler' = NoScaler
  /\ local' = << >>
  /\ input_data' = << >>
  /\ input_scaled' = << >>
  /\ predict_button' = FALSE
  /\ i' = 0
  /\ pred' = << >>
  /\ prob' = << >>
  /\ prob_potable' = 0
  /\ prob_not_potable' = 0
  /\ display' = NoDisplay
  /\ rendered' = {}
  /\ trace' = << >>

\* The server starts and the session's first run begins.
Init ==
  /\ file \in FileStates
  /\ fields = Defaults
  /\ event = NoEvent
  /\ edits = 0
  /\ runs = 1
  /\ loads = 0
  /\ firstArt = "none"
  /\ results = << >>
  /\ pc = "setup"
  /\ pressed = FALSE
  /\ exc = "none"
  /\ model = NoModel
  /\ scaler = NoScaler
  /\ local = << >>
  /\ input_data = << >>
  /\ input_scaled = << >>
  /\ predict_button = FALSE
  /\ i = 0
  /\ pred = << >>
  /\ prob = << >>
  /\ prob_potable = 0
  /\ prob_not_potable = 0
  /\ display = NoDisplay
  /\ rendered = {}
  /\ trace = << >>

\* ------------------------------------------------------ the script, in order
\* The run takes the browser's event; st.set_page_config and the style sheet.
PageSetup ==
  /\ pc = "setup"
  /\ rendered' = rendered \cup { "style" }
  /\ event' = NoEvent
  /\ pc' = "load"
  /\ UNCHANGED << file, fields, edits, runs, loads, firstArt, results, pressed,
                  exc, names, display, trace >>

\* The load succeeds: model and scaler are bound to the pickled pair.
LoadOk ==
  /\ pc = "load"
  /\ LoadOutcome(file) = "ok"
  /\ model' = ArtifactOf(file).model
  /\ scaler' = ArtifactOf(file).scaler
  /\ loads' = loads + 1
  /\ firstArt' = IF loads = 0 THEN ArtifactOf(file).id ELSE firstArt
  /\ trace' = Append(trace, "load")
  /\ pc' = "collect"
  /\ UNCHANGED << file, fields, event, edits, runs, results, pressed, exc,
                  local, input_data, input_scaled, predict_button, i, pred, prob,
                  prob_potable, prob_not_potable, display, rendered >>

\* What the except clause puts on the page.
LoadErrorElements == { "error" }

\* The except clause without its st.stop(): the script goes on.
LoadNotFoundNoStop ==
  /\ pc = "load"
  /\ LoadOutcome(file) # "ok"
  /\ Handled(LoadOutcome(file))
  /\ exc' = LoadOutcome(file)
  /\ rendered' = rendered \cup LoadErrorElements
  /\ pc' = "collect"
  /\ UNCHANGED << session, pressed, names, display, trace >>

\* The load raises FileNotFoundError: st.error, then st.stop().
LoadNotFound ==
  /\ pc = "load"
  /\ LoadOutcome(file) # "ok"
  /\ Handled(LoadOutcome(file))
  /\ exc' = LoadOutcome(file)
  /\ rendered' = rendered \cup LoadErrorElements
  /\ pc' = "stopped"
  /\ UNCHANGED << session, pressed, names, display, trace >>

\* The load raises anything else: no clause handles it, the run ends and
\* Streamlit puts the exception and its traceback on the page.
LoadRaises ==
  /\ pc = "load"
  /\ LoadOutcome(file) # "ok"
  /\ ~ Handled(LoadOutcome(file))
  /\ exc' = LoadOutcome(file)
  /\ rendered' = rendered \cup { "traceback" }
  /\ pc' = "crashed"
  /\ UNCHANGED << session, pressed, names, display, trace >>

\* A run that ended at the load rendered no widget; Streamlit keeps or drops
\* the widgets' state after such a run, depending on its version.
EndHalted ==
  /\ pc \in { "stopped", "crashed" }
  /\ pc' = "idle"
  /\ \E keep \in BOOLEAN : fields' = IF keep THEN fields ELSE Defaults
  /\ UNCHANGED << file, event, edits, runs, loads, firstArt, results, pressed, exc,
                  names, display, rendered, trace >>

\* The header and the nine number_input calls, each returning its widget's
\* value.
Collect ==
  /\ pc = "collect"
  /\ local' = [ ph |-> fields["pH"], hardness |-> fields["Hardness"],
                solids |-> fields["Solids"], chloramines |-> fields["Chloramines"],
                sulfate |-> fields["Sulfate"], conductivity |-> fields["Conductivity"],
                organic_carbon |-> fields["OrganicCarbon"],
                trihalomethanes |-> fields["Trihalomethanes"],
                turbidity |-> fields["Turbidity"] ]
  /\ rendered' = rendered \cup { "header", "inputs" }
  /\ trace' = Append(trace, "collect")
  /\ pc' = "assemble"
  /\ UNCHANGED << session, pressed, exc, model, scaler, input_data, input_scaled,
                  predict_button, i, pred, prob, prob_potable, prob_not_potable,
                  display >>

\* The row with sulfate and conductivity in each other's place.
InputRowSwapped(l) ==
  << l.ph, l.hardness, l.solids, l.chloramines, l.conductivity,
     l.sulfate, l.organic_carbon, l.trihalomethanes, l.turbidity >>

\* np.array([[ph, hardness, ...]]): the one row of input_data.
InputRow(l) ==
  << l.ph, l.hardness, l.solids, l.chloramines, l.sulfate,
     l.conductivity, l.organic_carbon, l.trihalomethanes, l.turbidity >>

Assemble ==
  /\ pc = "assemble"
  /\ input_data' = InputRow(local)
  /\ trace' = Append(trace, "assemble")
  /\ pc' = "scale"
  /\ UNCHANGED << session, pressed, exc, model, scaler, local, input_scaled,
                  predict_button, i, pred, prob, prob_potable, prob_not_potable,
                  display, rendered >>

\* input_scaled = scaler.transform(input_data), outside the button's branch.
Scale ==
  /\ pc = "scale"
  /\ input_scaled' = Transform(scaler, input_data)
  /\ trace' = Append(trace, "scale")
  /\ pc' = "button"
  /\ UNCHANGED << session, pressed, exc, model, scaler, local, input_data,
                  predict_button, i, pred, prob, prob_potable, prob_not_potable,
                  display, rendered >>

\* A button that reads as pressed in every run.
ButtonValueAlways(p) == TRUE

\* st.button: True in the run its press started, False in any other.
ButtonValue(p) == p

Button ==
  /\ pc = "button"
  /\ predict_button' = ButtonValue(pressed)
  /\ rendered' = rendered \cup { "button" }
  /\ pc' = IF predict_button' THEN "progress" ELSE "footer"
  /\ UNCHANGED << session, pressed, exc, model, scaler, local, input_data,
                  input_scaled, i, pred, prob, prob_potable, prob_not_potable,
                  display, trace >>

\* An iteration that writes the bar's value into the scaled vector.
ProgressStepClobbers ==
  /\ pc = "progress"
  /\ i < ProgressSteps
  /\ i' = i + 1
  /\ input_scaled' = [ input_scaled EXCEPT ![1] = i + 1 ]
  /\ UNCHANGED << session, pc, pressed, exc, model, scaler, local, input_data,
                  predict_button, pred, prob, prob_potable,
                  prob_not_potable, display, rendered, trace >>

\* One iteration of the progress loop: sleep, then move the bar.
ProgressStep ==
  /\ pc = "progress"
  /\ i < ProgressSteps
  /\ i' = i + 1
  /\ UNCHANGED << session, pc, pressed, exc, model, scaler, local, input_data,
                  input_scaled, predict_button, pred, prob, prob_potable,
                  prob_not_potable, display, rendered, trace >>

\* A label that lags one request behind: each request after the first is
\* answered with the label of the request before it.
CallPredictStale ==
  /\ pc = "progress"
  /\ i = ProgressSteps
  /\ pred' =
       IF results = << >> THEN Predict(model, input_scaled)
       ELSE LET r == results[Len(results)]
                x == [ k \in 1..Len(FieldNames) |-> r.fields[FieldNames[k]] ]
            IN  Predict(ArtifactOf(r.art).model,
                        Transform(ArtifactOf(r.art).scaler, x))
  /\ trace' = Append(trace, "predict")
  /\ pc' = "proba"
  /\ UNCHANGED << session, pressed, exc, model, scaler, local, input_data,
                  input_scaled, predict_button, i, prob, prob_potable,
                  prob_not_potable, display, rendered >>

\* The loop is over: pred = model.predict(input_scaled).
CallPredict ==
  /\ pc = "progress"
  /\ i = ProgressSteps
  /\ pred' = Predict(model, input_scaled)
  /\ trace' = Append(trace, "predict")
  /\ pc' = "proba"
  /\ UNCHANGED << session, pressed, exc, model, scaler, local, input_data,
                  input_scaled, predict_button, i, prob, prob_potable,
                  prob_not_potable, display, rendered >>

\* The two probabilities bound to each other's name.
CallProbaSwapped ==
  /\ pc = "proba"
  /\ prob' = PredictProba(model, input_scaled)[1]
  /\ prob_potable' = prob'[1]
  /\ prob_not_potable' = prob'[2]
  /\ trace' = Append(trace, "predict_proba")
  /\ pc' = "present"
  /\ UNCHANGED << session, pressed, exc, model, scaler, local, input_data,
                  input_scaled, predict_button, i, pred, display, rendered >>

\* prob = model.predict_proba(input_scaled)[0]; prob[1] and prob[0] (from 0)
\* are the second and the first entry.
CallProba ==
  /\ pc = "proba"
  /\ prob' = PredictProba(model, input_scaled)[1]
  /\ prob_potable' = prob'[2]
  /\ prob_not_potable' = prob'[1]
  /\ trace' = Append(trace, "predict_proba")
  /\ pc' = "present"
  /\ UNCHANGED << session, pressed, exc, model, scaler, local, input_data,
                  input_scaled, predict_button, i, pred, display, rendered >>

\* The result section.
Present ==
  /\ pc = "present"
  /\ display' = Presenter(pred, prob_potable, prob_not_potable)
  /\ rendered' = rendered \cup { "result" }
  /\ trace' = Append(trace, "present")
  /\ results' = Append(results,
       [ fields |-> fields, art |-> model.id, pred |-> pred, prob |-> prob,
         verdict |-> display'.verdict, confidence |-> display'.confidence ])
  /\ pc' = "footer"
  /\ UNCHANGED << file, fields, event, edits, runs, loads, firstArt, pressed,
                  exc, names >>

\* The expander and the footer; the run is over.
Footer ==
  /\ pc = "footer"
  /\ rendered' = rendered \cup { "about", "footer" }
  /\ pc' = "idle"
  /\ UNCHANGED << session, pressed, exc, names, display, trace >>

\* ------------------------------------------------------------ between runs
\* The user types a value into a field of the page.
Edit ==
  /\ pc = "idle"
  /\ runs < MaxRuns
  /\ edits < MaxEdits
  /\ "inputs" \in rendered
  /\ \E f \in FieldSet : \E raw \in Typed(f) : \E clamp \in BOOLEAN :
       /\ fields' = [ fields EXCEPT ![f] = NumberInput(f, fields[f], raw, clamp) ]
       /\ event' = [ field |-> f, raw |-> raw ]
  /\ edits' = edits + 1
  /\ runs' = runs + 1
  /\ pressed' = FALSE
  /\ FreshRun
  /\ UNCHANGED << file, loads, firstArt, results >>

\* The user presses the analyze button of the page.
Press ==
  /\ pc = "idle"
  /\ runs < MaxRuns
  /\ "button" \in rendered
  /\ runs' = runs + 1
  /\ pressed' = TRUE
  /\ FreshRun
  /\ UNCHANGED << file, fields, event, edits, loads, firstArt, results >>

\* The user reruns the page from the menu.
Rerun ==
  /\ pc = "idle"
  /\ runs < MaxRuns
  /\ runs' = runs + 1
  /\ pressed' = FALSE
  /\ FreshRun
  /\ UNCHANGED << file, fields, event, edits, loads, firstArt, results >>

\* rf_model.pkl is replaced, removed or made unreadable.  The script reads
\* the file only in its load step, so a change during a run has the effect
\* of the same change just before or just after the run.
ReplaceFile ==
  /\ pc = "idle"
  /\ runs < MaxRuns
  /\ \E f \in FileStates \ { file } : file' = f
  /\ UNCHANGED << fields, event, edits, runs, loads, firstArt, results, pc,
                  pressed, exc, names, display, rendered, trace >>

Next ==
  \/ PageSetup
  \/ LoadOk
  \/ LoadNotFound
  \/ LoadRaises
  \/ EndHalted
  \/ Collect
  \/ Assemble
  \/ Scale
  \/ Button
  \/ ProgressStep
  \/ CallPredict
  \/ CallProba
  \/ Present
  \/ Footer
  \/ Edit
  \/ Press
  \/ Rerun
  \/ ReplaceFile

Spec == Init /\ [][Next]_vars

\* The pipeline steps of a run, in the order of the script.
Pipeline ==
  << "load", "collect", "assemble", "scale", "predict", "predict_proba", "present" >>

\* The current run has ended with the whole page rendered.
RunComplete == pc = "idle" /\ "footer" \in rendered

\* ----------------------------------------------------------------- claims

\* C1: when rf_model.pkl is missing, the run shows the error message and
\* halts at the load: no input field and no analyze button is rendered, no
\* traceback is shown, and neither the scaler nor the classifier is called.
C1_MissingArtifactHalts ==
  /\ (file = "absent" /\ pc \notin { "setup", "load", "idle" }) => pc = "stopped"
  /\ exc = "FileNotFoundError" =>
       /\ pc \in { "stopped", "idle" }
       /\ "error" \in rendered
       /\ rendered \cap { "inputs", "button", "result", "traceback" } = {}
       /\ trace = << >>
       /\ input_scaled = << >> /\ pred = << >> /\ prob = << >>

\* C1's case: the file is missing at startup and the first run has halted.
C1_Witness ==
  /\ runs = 1
  /\ file = "absent"
  /\ pc = "stopped"
  /\ "error" \in rendered

\* C2: every failed load, whatever the failure, ends halted with the plain
\* error message on the page and no traceback.
C2_EveryLoadFailureHaltsCleanly ==
  (pc \in { "stopped", "crashed" } \/ exc # "none") =>
    /\ pc \in { "stopped", "idle" }
    /\ "error" \in rendered
    /\ "traceback" \notin rendered

\* C3: the verdict shown is the potable one exactly when the label is 1 and
\* the not-potable one otherwise, and the confidence shown is the formatted
\* probability of the labelled class (p_potable for label 1, p_not_potable
\* for label 0), whether or not the label is the argmax of the pair.
C3_PresenterFollowsLabel ==
  "result" \in rendered =>
    /\ display.verdict = (IF pred[1] = 1 THEN "POTABLE" ELSE "NOT POTABLE")
    /\ display.confidence = FormatPct(IF pred[1] = 1 THEN prob[2] ELSE prob[1])
    /\ (FormatPct(prob[1]) # FormatPct(prob[2]) =>
          display.confidence # FormatPct(IF pred[1] = 1 THEN prob[1] ELSE prob[2]))

\* C3's case: a result is shown whose label is 1 although p_potable is the
\* smaller probability.
C3_Witness ==
  /\ "result" \in rendered
  /\ pred[1] = 1
  /\ prob[2] < prob[1]
  /\ display.verdict = "POTABLE"

\* C4 as claimed: in a run the button did not start, neither the scaling
\* transform nor the classifier is invoked.
C4_NoPipelineWithoutPress ==
  ~ pressed =>
    \A k \in 1..Len(trace) : trace[k] \notin { "scale", "predict", "predict_proba" }

\* C4 amended: every run that loads the artifact collects, assembles and
\* scales once, in that order, pressed or not; the classifier and the
\* presenter run only in a run the button started, once each and after the
\* scaling.
C4_ClassifierOnlyOnPress ==
  /\ \E n \in 0..Len(Pipeline) : trace = SubSeq(Pipeline, 1, n)
  /\ Len(trace) > 4 => pressed
  /\ RunComplete => trace = (IF pressed THEN Pipeline ELSE SubSeq(Pipeline, 1, 4))

\* C4's case: a run the button started has ended with the whole pipeline
\* executed, after a run it did not start.
C4_Witness ==
  /\ RunComplete
  /\ pressed
  /\ runs >= 2
  /\ trace = Pipeline

\* C5: the artifact is deserialized once, and the pair in use is always the
\* one first loaded.
C5_LoadedOnce ==
  /\ loads <= 1
  /\ model.id # "none" => model.id = firstArt

\* C6: every field value, in the widgets and as handed to the assembler, is
\* within the field's [min, max] of the table; a typed value within the
\* bounds, the bounds themselves included, becomes the field's value; before
\* any edit every field holds its default.
C6_FieldsWithinBounds ==
  LET lo == [ f \in FieldSet |-> 0 ]
      hi == [ pH |-> 140, Hardness |-> 5000, Solids |-> 600000,
              Chloramines |-> 100, Sulfate |-> 6000, Conductivity |-> 8000,
              OrganicCarbon |-> 300, Trihalomethanes |-> 1200, Turbidity |-> 100 ]
      dflt == [ pH |-> 70, Hardness |-> 1500, Solids |-> 200000,
                Chloramines |-> 70, Sulfate |-> 3300, Conductivity |-> 4000,
                OrganicCarbon |-> 100, Trihalomethanes |-> 600, Turbidity |-> 30 ]
  IN  /\ \A f \in FieldSet : lo[f] <= fields[f] /\ fields[f] <= hi[f]
      /\ \A k \in 1..Len(input_data) :
           lo[FieldNames[k]] <= input_data[k] /\ input_data[k] <= hi[FieldNames[k]]
      /\ (event # NoEvent /\ lo[event.field] <= event.raw
            /\ event.raw <= hi[event.field]) => fields[event.field] = event.raw
      /\ edits = 0 => fields = dflt

\* C6's case: after two edits pH holds its exact minimum and Turbidity its
\* exact maximum, and the values have been handed to the assembler.
C6_Witness ==
  /\ edits = 2
  /\ fields["pH"] = 0
  /\ fields["Turbidity"] = 100
  /\ Len(input_data) = 9
  /\ input_data[1] = 0
  /\ input_data[9] = 100

\* C7: the vector assembled and passed to the scaler has 9 entries, the
\* current values of the fields in the order pH, Hardness, Solids,
\* Chloramines, Sulfate, Conductivity, OrganicCarbon, Trihalomethanes,
\* Turbidity; the scaled vector has 9 entries too.
C7_VectorInTrainedOrder ==
  /\ input_data # << >> =>
       input_data = << fields["pH"], fields["Hardness"], fields["Solids"],
                       fields["Chloramines"], fields["Sulfate"],
                       fields["Conductivity"], fields["OrganicCarbon"],
                       fields["Trihalomethanes"], fields["Turbidity"] >>
  /\ input_scaled # << >> => Len(input_scaled) = 9 /\ Len(input_data) = 9

\* C7's case: a vector has been scaled after Sulfate was set to its maximum
\* and Conductivity to its minimum.
C7_Witness ==
  /\ pc = "button"
  /\ fields["Sulfate"] = 6000
  /\ fields["Conductivity"] = 0
  /\ input_data[5] = 6000
  /\ input_data[6] = 0

C9_DelayChangesNothing ==
  /\ [][ pc = "progress" =>
           UNCHANGED << fields, local, input_data, input_scaled, model, scaler >> ]_vars
  /\ [] ( pc \in { "present", "footer" } /\ predict_button =>
            /\ pred = Predict(model, Transform(scaler, InputRow(local)))
            /\ prob = PredictProba(model, Transform(scaler, InputRow(local)))[1] )

\* C9's case: the loop has run all its iterations and the classifier has
\* answered.
C9_Witness ==
  /\ pc = "present"
  /\ i = ProgressSteps
  /\ pred # << >>
  /\ prob # << >>

\* C10: a verdict, a confidence, probabilities or a label exist only in a
\* run the button started; a run it did not start shows and holds none, also
\* after an earlier request.
C10_ResultOnlyInItsRequest ==
  ~ pressed =>
    /\ display = NoDisplay
    /\ "result" \notin rendered
    /\ pred = << >> /\ prob = << >>
    /\ prob_potable = 0 /\ prob_not_potable = 0

\* C10's case: after a request was shown, a run the button did not start has
\* rendered the whole page.
C10_Witness ==
  /\ Len(results) >= 1
  /\ ~ pressed
  /\ RunComplete
  /\ display = NoDisplay

====
